---- MODULE Spec2Model ----
(***************************************************************************)
(* Anti-Fraud_Platform: the fact-check session run by the agent executor   *)
(* (agent_executor.py, process_agent_task) with the Manager agent that     *)
(* get_prompt.py programs, and the role protocol the Manager, Worker and   *)
(* Supervisor prompts of get_prompt.py describe.                           *)
(*                                                                         *)
(* Spec       the executor as written: one generate_content call with the  *)
(*            Manager prompt, then the forced final report.                *)
(* FairSpec   Spec with the fairness of the blocking model call.           *)
(* SpecAgents the role protocol of the four prompts: each message goes to  *)
(*            the role its "receiver" field names, and that role answers   *)
(*            as its prompt tells it to.                                   *)
(***************************************************************************)
EXTENDS Integers, FiniteSets, Sequences, TLC

VARIABLES
    clientOk,       \* agent_executor.py: module-level `client` is not None
    sessionStatus,  \* "NONE" | "RUNNING" | "FINALIZED" | "ABORTED"
    phase,          \* "IDLE" | "PLANNING" | "DISPATCHED" (format A/B answer: the
                    \* round's tasks are out) | "CONCLUDED" (format C answer) |
                    \* "FINALIZING" (final report produced) | "FAILED"
    round,          \* number of the round in progress (0 before the first plan)
    extracted,      \* how many atomic statements the Manager finds in the input
    verdicts,       \* proposition id -> verdict
    gaps,           \* propositions still lacking reviewed evidence
    tasks,          \* worker slot -> task of the current round (<< >> if none)
    response,       \* format of the Manager's last answer: "NONE" | "A" | "B" | "C"
    managerVerdict, \* "verdict" field of the Manager's format C message
    reported,       \* verdict printed in the report the caller receives
    httpStatus,     \* status of the executor's answer (0: none yet)
    requests,       \* fraud_back-end.py: request id -> the state of its
                    \* check_scam_report call
    uploads,        \* fraud_back-end.py: the files present in temp_uploads/
    single,         \* single_agent.py / single_as_multi.py: the application's
                    \* SYSTEM_PROMPT and the state of a check_scam_report call
    envelopes       \* get_prompt.py: worker slot -> "sender" and "receiver" of
                    \* the message in flight for the slot's task; after a
                    \* format C answer the one message to the boss

\* The variables of the HTTP handlers outside the executor.
handlerVars == <<requests, uploads, single>>

vars == <<clientOk, sessionStatus, phase, round, extracted, verdicts, gaps,
          tasks, response, managerVerdict, reported, httpStatus, requests,
          uploads, single, envelopes>>

----------------------------------------------------------------------------
\* Program constants and model bounds

worker_count == 5

PropositionCap == 5

roundCap == 3

revisionCap == 2

MaxExtracted == 6

MaxClaim == 1

MaxRevisions == 3

MaxRounds == 2

Verdicts == {"TRUE", "FALSE", "MIXED", "UNDETERMINED"}

Slots == 1..worker_count

Min(a, b) == IF a <= b THEN a ELSE b

MaxRequests == 2

\* The concurrent POST /check_scam_report requests of fraud_back-end.py.
Requests == 1..MaxRequests

\* A request that has not arrived.  path is the request's uploaded_path
\* (0: None; the os.urandom(8) name is modelled as the request's own id),
\* calls counts its requests.post calls, exit is the outcome the try block
\* left with, status and report are what the caller has received.
NoRequest == [pc |-> "idle", text |-> FALSE, media |-> FALSE, path |-> 0,
              calls |-> 0, exit |-> 0, status |-> 0, report |-> "NONE"]

MaxUpdates == 2

\* The two single-agent applications; each serves /check_scam_report and
\* /update_prompt.
Apps == {"single_agent", "single_as_multi"}

\* No /check_scam_report call yet.  prompt is the version of the module-level
\* SYSTEM_PROMPT; created and used are the versions at the call's start and
\* in its GenerateContentConfig (-1: none); uploaded says uploaded_file is
\* set and remote that the file is stored at the model service; raised is
\* the status code of the HTTPException the handler's own code raised (0:
\* none) and status the code the caller receives.
NoCall == [app |-> "single_agent", client |-> TRUE, prompt |-> 0,
           updates |-> 0, pc |-> "idle", text |-> FALSE, file |-> "none",
           big |-> FALSE, created |-> -1, used |-> -1, uploaded |-> FALSE,
           remote |-> FALSE, reply |-> "NONE", raised |-> 0, status |-> 0,
           detail |-> "NONE"]

----------------------------------------------------------------------------
\* The Manager agent (get_manager_agent_prompts)

\* A variant that keeps every statement found.
extract_uncapped(n) == 1..n

\* MISSION 1: extract the key propositions, no more than 5.
extract(n) == 1..Min(PropositionCap, n)

\* The propositions a plan's sub-questions are anchored to.
Anchors(plan) == {plan[k].anchor : k \in DOMAIN plan}

\* A variant that leaves the last worker without a task.
planRound_short(outstanding) ==
    LET targets == IF outstanding = {} THEN {0} ELSE outstanding
    IN  {plan \in [1..(worker_count - 1) -> [anchor : targets, status : {"ASSIGNED"},
                                             revisions : {0}]] :
            Anchors(plan) = targets}

\* A variant that does not make the sub-questions cover every proposition.
planRound_uncovered(outstanding) ==
    LET targets == IF outstanding = {} THEN {0} ELSE outstanding
    IN  [Slots -> [anchor : targets, status : {"ASSIGNED"}, revisions : {0}]]

\* MISSION 2-4 and OUTPUT FORMAT A/B: one sub-question per worker, for
\* exactly worker_count workers, worker_1 .. worker_n; the sub-questions
\* are distinct (one per slot), each is anchored to one outstanding
\* proposition, and together they cover the outstanding propositions.
\* With nothing extracted they are anchored to the claim as a whole
\* (anchor 0).
planRound(outstanding) ==
    LET targets == IF outstanding = {} THEN {0} ELSE outstanding
    IN  {plan \in [Slots -> [anchor : targets, status : {"ASSIGNED"},
                             revisions : {0}]] :
            Anchors(plan) = targets}

----------------------------------------------------------------------------
\* The roles and the "sender"/"receiver" of each message format
\* (get_prompt.py)

boss == <<"boss", 0>>

manager_1 == <<"manager", 1>>

supervisor_1 == <<"supervisor", 1>>

Worker(k) == <<"worker", k>>

\* Manager OUTPUT FORMAT A and B: one task per worker, manager_1 to worker_k.
TaskAssignment(k) == [sender |-> manager_1, receiver |-> Worker(k)]

\* Manager OUTPUT FORMAT C: the final report, manager_1 to boss.
FinalReport == [sender |-> manager_1, receiver |-> boss]

\* Worker OUTPUT FORMAT: worker_<your_id_number> to supervisor_1.
WorkerReport(k) == [sender |-> Worker(k), receiver |-> supervisor_1]

\* A variant that sends the fixes to the next worker.
ReviseReceiver_next(k) == Worker((k % worker_count) + 1)

\* Supervisor ROLE and MISSION 5: the required fixes go "back to the
\* Worker" whose report is being judged.
ReviseReceiver(k) == Worker(k)

\* Supervisor OUTPUT FORMAT A (REVISE): supervisor_1 to the worker.
Revision(k) == [sender |-> supervisor_1, receiver |-> ReviseReceiver(k)]

\* Supervisor OUTPUT FORMAT B (APPROVE): supervisor_1 to manager_1, with
\* worker_id and task of the approved report.
Digest(k) == [sender |-> supervisor_1, receiver |-> manager_1]

----------------------------------------------------------------------------
\* The agent executor (agent_executor.py)

Init ==
    /\ clientOk \in BOOLEAN
    /\ extracted \in 0..MaxExtracted
    /\ sessionStatus = "NONE"
    /\ phase = "IDLE"
    /\ round = 0
    /\ verdicts = << >>
    /\ gaps = {}
    /\ tasks = << >>
    /\ response = "NONE"
    /\ managerVerdict = "NONE"
    /\ reported = "NONE"
    /\ httpStatus = 0
    /\ requests = [r \in Requests |-> NoRequest]
    /\ uploads = {}
    /\ single = NoCall
    /\ envelopes = << >>

\* POST /process_agent_task with a usable client: the Manager prompt and
\* the boss's input go to the model (lines 39-53).
ProcessAgentTask ==
    /\ sessionStatus = "NONE"
    /\ clientOk
    /\ sessionStatus' = "RUNNING"
    /\ phase' = "PLANNING"
    /\ UNCHANGED <<handlerVars, envelopes, clientOk,
                   extracted, round, verdicts, gaps, tasks, response,
                   managerVerdict, reported, httpStatus>>

\* POST /process_agent_task without a client: HTTP 500 (lines 36-37).
ClientMissing ==
    /\ sessionStatus = "NONE"
    /\ ~clientOk
    /\ sessionStatus' = "ABORTED"
    /\ phase' = "FAILED"
    /\ httpStatus' = 500
    /\ UNCHANGED <<handlerVars, envelopes, clientOk,
                   round, extracted, verdicts, gaps, tasks, response,
                   managerVerdict, reported>>

\* generate_content returns the Manager's format A answer: the propositions
\* are extracted, none has evidence yet, and round 1 is planned.
ManagerAssign ==
    /\ phase = "PLANNING"
    /\ round = 0
    /\ LET P == extract(extracted) IN
         /\ verdicts' = [p \in P |-> "PENDING"]
         /\ gaps' = P
         /\ \E plan \in planRound(P) : tasks' = plan
    /\ round' = 1
    /\ response' = "A"
    /\ phase' = "DISPATCHED"
    /\ envelopes' = [k \in Slots |-> TaskAssignment(k)]
    /\ UNCHANGED <<handlerVars, clientOk,
                   sessionStatus, extracted, managerVerdict,
                   reported, httpStatus>>

\* generate_content returns the Manager's format C answer: a verdict and a
\* report that answers each extracted proposition with its own verdict.
ManagerFinalReport ==
    /\ phase = "PLANNING"
    /\ round = 0
    /\ LET P == extract(extracted) IN
         \E pv \in [P -> Verdicts] : verdicts' = pv
    /\ \E v \in Verdicts : managerVerdict' = v
    /\ gaps' = {}
    /\ round' = 1
    /\ response' = "C"
    /\ phase' = "CONCLUDED"
    /\ envelopes' = <<FinalReport>>
    /\ UNCHANGED <<handlerVars, clientOk,
                   sessionStatus, extracted, tasks, reported,
                   httpStatus>>

\* generate_content raises APIError: HTTP 500 (lines 100-102).
GenerateContentError ==
    /\ phase = "PLANNING"
    /\ sessionStatus' = "ABORTED"
    /\ phase' = "FAILED"
    /\ httpStatus' = 500
    /\ UNCHANGED <<handlerVars, envelopes, clientOk,
                   round, extracted, verdicts, gaps, tasks, response,
                   managerVerdict, reported>>

\* The verdict the executor prints in its report (lines 78 and 89).
ReportVerdict(fmt, mv) == "UNDETERMINED"

\* A variant that plans again on a format A answer instead of finalizing.
BuildReport_replan ==
    /\ phase \in {"DISPATCHED", "CONCLUDED"}
    /\ IF response = "A" /\ round <= roundCap
       THEN /\ round' = round + 1
            /\ UNCHANGED <<sessionStatus, phase, reported, httpStatus>>
       ELSE /\ round' = round
            /\ reported' = ReportVerdict(response, managerVerdict)
            /\ sessionStatus' = "FINALIZED"
            /\ phase' = "FINALIZING"
            /\ httpStatus' = 200
    /\ UNCHANGED <<handlerVars, envelopes, clientOk,
                   extracted, verdicts, gaps, tasks, response,
                   managerVerdict>>

\* Lines 58-98: whatever the Manager answered, the executor builds the
\* final report at once and returns it with status "success".
BuildReport ==
    /\ phase \in {"DISPATCHED", "CONCLUDED"}
    /\ reported' = ReportVerdict(response, managerVerdict)
    /\ sessionStatus' = "FINALIZED"
    /\ phase' = "FINALIZING"
    /\ httpStatus' = 200
    /\ UNCHANGED <<handlerVars, envelopes, clientOk,
                   round, extracted, verdicts, gaps, tasks, response,
                   managerVerdict>>

\* Lines 103-105: building the report raises (line 80 reads
\* response.candidates[0].model_response.prompt_feedback): HTTP 500.
BuildReportError ==
    /\ phase \in {"DISPATCHED", "CONCLUDED"}
    /\ sessionStatus' = "ABORTED"
    /\ phase' = "FAILED"
    /\ httpStatus' = 500
    /\ UNCHANGED <<handlerVars, envelopes, clientOk,
                   round, extracted, verdicts, gaps, tasks, response,
                   managerVerdict, reported>>

Next ==
    \/ ProcessAgentTask
    \/ ClientMissing
    \/ ManagerAssign
    \/ ManagerFinalReport
    \/ GenerateContentError
    \/ BuildReport
    \/ BuildReportError

Spec == Init /\ [][Next]_vars

\* generate_content is a blocking call that returns or raises, and the
\* handler then runs to its return or raise.
FairSpec ==
    /\ Spec
    /\ WF_vars(ManagerAssign \/ ManagerFinalReport \/ GenerateContentError)
    /\ WF_vars(BuildReport \/ BuildReportError)

----------------------------------------------------------------------------
\* The role protocol (get_worker_agent_prompts, get_supervisor_agent_prompts,
\* get_manager_agent_prompts: MISSION 5 and OUTPUT FORMAT B, C)

InitAgents ==
    /\ clientOk = TRUE
    /\ extracted \in 0..MaxClaim
    /\ sessionStatus = "NONE"
    /\ phase = "IDLE"
    /\ round = 0
    /\ verdicts = << >>
    /\ gaps = {}
    /\ tasks = << >>
    /\ response = "NONE"
    /\ managerVerdict = "NONE"
    /\ reported = "NONE"
    /\ httpStatus = 0
    /\ requests = [r \in Requests |-> NoRequest]
    /\ uploads = {}
    /\ single = NoCall
    /\ envelopes = << >>

\* REVISE messages sent in the current round, over all its tasks.
RECURSIVE RevisionsUpTo(_, _)
RevisionsUpTo(t, k) == IF k = 0 THEN 0 ELSE t[k].revisions + RevisionsUpTo(t, k - 1)

TotalRevisions(t) == RevisionsUpTo(t, Len(t))

\* Worker MISSION 1-4: answer the task the Manager assigned, or rework it on
\* the Supervisor's feedback, and submit the findings to supervisor_1.
WorkerMaySubmit(st) == st \in {"ASSIGNED", "REVISION_REQUESTED"}

WorkerSubmit(k) ==
    /\ phase = "DISPATCHED"
    /\ WorkerMaySubmit(tasks[k].status)
    /\ tasks' = [tasks EXCEPT ![k].status = "SUBMITTED"]
    /\ envelopes' = [envelopes EXCEPT ![k] = WorkerReport(k)]
    /\ UNCHANGED <<handlerVars, clientOk,
                   sessionStatus, phase, round, extracted, verdicts,
                   gaps, response, managerVerdict, reported, httpStatus>>

\* A variant that also decides on a report already sent back for rework.
SupervisorMayDecide_stale(st) == st \in {"SUBMITTED", "REVISION_REQUESTED"}

\* Supervisor MISSION 5: "Decide per report": the Supervisor judges a report
\* a Worker has submitted.
SupervisorMayDecide(st) == st = "SUBMITTED"

\* REVISE: the list of required fixes goes back to the Worker (format A).
\* The prompt sets no limit on how often; MaxRevisions bounds the model.
SupervisorRevise(k) ==
    /\ phase = "DISPATCHED"
    /\ SupervisorMayDecide(tasks[k].status)
    /\ TotalRevisions(tasks) < MaxRevisions
    /\ tasks' = [tasks EXCEPT ![k].status = "REVISION_REQUESTED",
                              ![k].revisions = @ + 1]
    /\ envelopes' = [envelopes EXCEPT ![k] = Revision(k)]
    /\ UNCHANGED <<handlerVars, clientOk,
                   sessionStatus, phase, round, extracted, verdicts,
                   gaps, response, managerVerdict, reported, httpStatus>>

\* APPROVE: the digest goes to manager_1 (format B).
SupervisorApprove(k) ==
    /\ phase = "DISPATCHED"
    /\ SupervisorMayDecide(tasks[k].status)
    /\ tasks' = [tasks EXCEPT ![k].status = "APPROVED"]
    /\ envelopes' = [envelopes EXCEPT ![k] = Digest(k)]
    /\ UNCHANGED <<handlerVars, clientOk,
                   sessionStatus, phase, round, extracted, verdicts,
                   gaps, response, managerVerdict, reported, httpStatus>>

\* user_prompt_from_supervisor: the Manager is given the reports of the
\* Workers that the Supervisor has reviewed and approved.
ReportsApproved ==
    /\ tasks # << >>
    /\ \A k \in DOMAIN tasks : tasks[k].status = "APPROVED"

\* Manager MISSION 5, coverage insufficient: another round with gap-filling
\* tasks (format B).  The prompt sets no limit on the number of rounds;
\* MaxRounds bounds the model.
ManagerContinue ==
    /\ phase = "DISPATCHED"
    /\ ReportsApproved
    /\ round < MaxRounds
    /\ \E G \in (SUBSET DOMAIN verdicts) \ {{}} :
         /\ gaps' = G
         /\ \E plan \in planRound(G) : tasks' = plan
    /\ round' = round + 1
    /\ response' = "B"
    /\ envelopes' = [k \in Slots |-> TaskAssignment(k)]
    /\ UNCHANGED <<handlerVars, clientOk,
                   sessionStatus, phase, extracted, verdicts,
                   managerVerdict, reported, httpStatus>>

\* Manager MISSION 5, coverage sufficient: the final report and verdict go
\* to the boss (format C); no round is open any more.
ManagerConclude ==
    /\ phase = "DISPATCHED"
    /\ ReportsApproved
    /\ \E pv \in [DOMAIN verdicts -> Verdicts] : verdicts' = pv
    /\ \E v \in Verdicts : /\ managerVerdict' = v
                           /\ reported' = v
    /\ gaps' = {}
    /\ tasks' = << >>
    /\ response' = "C"
    /\ sessionStatus' = "FINALIZED"
    /\ phase' = "FINALIZING"
    /\ envelopes' = <<FinalReport>>
    /\ UNCHANGED <<handlerVars, clientOk, round, extracted, httpStatus>>

NextAgents ==
    \/ ProcessAgentTask
    \/ ManagerAssign
    \/ \E k \in Slots : WorkerSubmit(k)
    \/ \E k \in Slots : SupervisorRevise(k)
    \/ \E k \in Slots : SupervisorApprove(k)
    \/ ManagerContinue
    \/ ManagerConclude

SpecAgents == InitAgents /\ [][NextAgents]_vars

----------------------------------------------------------------------------
\* The facade (fraud_back-end.py, check_scam_report and call_agent_system)

InitBackend ==
    /\ clientOk = TRUE
    /\ extracted = 0
    /\ sessionStatus = "NONE"
    /\ phase = "IDLE"
    /\ round = 0
    /\ verdicts = << >>
    /\ gaps = {}
    /\ tasks = << >>
    /\ response = "NONE"
    /\ managerVerdict = "NONE"
    /\ reported = "NONE"
    /\ httpStatus = 0
    /\ requests = [r \in Requests |-> NoRequest]
    /\ uploads = {}
    /\ single = NoCall
    /\ envelopes = << >>

\* The variables the facade never touches.
nonBackendVars == <<clientOk, sessionStatus, phase, round, extracted, verdicts,
                    gaps, tasks, response, managerVerdict, reported,
                    httpStatus, single, envelopes>>

\* A client posts the form: text and media_file are both optional.
Submit(r) ==
    /\ requests[r].pc = "idle"
    /\ \E t \in BOOLEAN, m \in BOOLEAN :
         requests' = [requests EXCEPT ![r].pc = "received",
                                      ![r].text = t, ![r].media = m]
    /\ UNCHANGED <<uploads, nonBackendVars>>

\* A variant that accepts every form.
NothingToCheck_accept(t, m) == FALSE

\* Line 78: `if not (text or media_file)`.
NothingToCheck(t, m) == ~(t \/ m)

\* Lines 78-87: HTTP 400 when there is nothing to check, raised before the
\* try block; otherwise the handler goes on, with a placeholder claim text
\* when text is empty.
CheckInput(r) ==
    /\ requests[r].pc = "received"
    /\ IF NothingToCheck(requests[r].text, requests[r].media)
       THEN requests' = [requests EXCEPT ![r].pc = "done", ![r].status = 400]
       ELSE requests' = [requests EXCEPT ![r].pc =
                            IF requests[r].media THEN "save" ELSE "call"]
    /\ UNCHANGED <<uploads, nonBackendVars>>

\* Lines 91-102: the upload is written to temp_uploads/<random name>.  The
\* copy succeeds, or it raises with the file created or not (line 123).
SaveUpload(r) ==
    /\ requests[r].pc = "save"
    /\ \/ /\ requests' = [requests EXCEPT ![r].pc = "describe", ![r].path = r]
          /\ uploads' = uploads \cup {r}
       \/ /\ requests' = [requests EXCEPT ![r].pc = "cleanup", ![r].path = r,
                                           ![r].exit = 500]
          /\ \E created \in BOOLEAN :
               uploads' = IF created THEN uploads \cup {r} ELSE uploads
    /\ UNCHANGED nonBackendVars

\* Line 105: describe_media reads the saved file and returns a description
\* or "" (it catches its own exceptions).
DescribeMedia(r) ==
    /\ requests[r].pc = "describe"
    /\ requests' = [requests EXCEPT ![r].pc = "call"]
    /\ UNCHANGED <<uploads, nonBackendVars>>

\* Lines 107-119, 27-46: the prompt is assembled and posted to the agent
\* service.
CallAgentSystem(r) ==
    /\ requests[r].pc = "call"
    /\ requests' = [requests EXCEPT ![r].pc = "await", ![r].calls = @ + 1]
    /\ UNCHANGED <<uploads, nonBackendVars>>

\* What requests.post, raise_for_status and response.json() can give.
AgentReplies == {"report", "no_report", "not_object", "not_json",
                 "http_error", "unreachable", "timeout"}

\* Lines 46-62, 121-127: the status check_scam_report leaves with.  A body
\* that is not JSON raises requests' JSONDecodeError, a RequestException
\* (503), or json's (500), depending on the installed requests.
CallOutcomes(kind) ==
    CASE kind \in {"report", "no_report"} -> {200}
      [] kind = "not_object" -> {500}
      [] kind = "not_json" -> {500, 503}
      [] OTHER -> {503}

\* Lines 53-55: the "report" field, or the notice that it is missing.
CallReport(kind) ==
    CASE kind = "report" -> "REPORT"
      [] kind = "no_report" -> "NOTICE"
      [] OTHER -> "NONE"

\* A variant that posts again when the agent service cannot be reached.
AgentReply_retry(r) ==
    /\ requests[r].pc = "await"
    /\ \E kind \in AgentReplies :
         IF kind \in {"unreachable", "timeout"}
         THEN requests' = [requests EXCEPT ![r].calls = 3 - @]
         ELSE \E code \in CallOutcomes(kind) :
                requests' = [requests EXCEPT ![r].pc = "cleanup",
                                             ![r].exit = code,
                                             ![r].report = CallReport(kind)]
    /\ UNCHANGED <<uploads, nonBackendVars>>

\* Lines 46-62: the blocking post returns, raises, or times out after 120 s.
AgentReply(r) ==
    /\ requests[r].pc = "await"
    /\ \E kind \in AgentReplies : \E code \in CallOutcomes(kind) :
         requests' = [requests EXCEPT ![r].pc = "cleanup", ![r].exit = code,
                                      ![r].report = CallReport(kind)]
    /\ UNCHANGED <<uploads, nonBackendVars>>

\* A variant that empties temp_uploads.
RemoveUpload_all(files, p) == {}

\* Lines 131-132: os.remove(uploaded_path) when the path is set and exists.
RemoveUpload(files, p) == files \ {p}

\* Lines 129-132 and the return or raise: the finally block runs, then the
\* caller receives the report or the HTTP error.
Cleanup(r) ==
    /\ requests[r].pc = "cleanup"
    /\ uploads' = IF requests[r].path # 0
                  THEN RemoveUpload(uploads, requests[r].path) ELSE uploads
    /\ requests' = [requests EXCEPT ![r].pc = "done",
                                    ![r].status = requests[r].exit]
    /\ UNCHANGED nonBackendVars

HandlerStep(r) ==
    \/ CheckInput(r)
    \/ SaveUpload(r)
    \/ DescribeMedia(r)
    \/ CallAgentSystem(r)
    \/ AgentReply(r)
    \/ Cleanup(r)

NextBackend ==
    \/ \E r \in Requests : Submit(r)
    \/ \E r \in Requests : CheckInput(r)
    \/ \E r \in Requests : SaveUpload(r)
    \/ \E r \in Requests : DescribeMedia(r)
    \/ \E r \in Requests : CallAgentSystem(r)
    \/ \E r \in Requests : AgentReply(r)
    \/ \E r \in Requests : Cleanup(r)

SpecBackend == InitBackend /\ [][NextBackend]_vars

\* Every step of the handler is a blocking call that returns or raises:
\* the post carries timeout=120 (line 46).
FairBackend == SpecBackend /\ \A r \in Requests : WF_vars(HandlerStep(r))

----------------------------------------------------------------------------
\* The single-agent applications (single_agent.py, single_as_multi.py)

InitSingle ==
    /\ clientOk = TRUE
    /\ extracted = 0
    /\ sessionStatus = "NONE"
    /\ phase = "IDLE"
    /\ round = 0
    /\ verdicts = << >>
    /\ gaps = {}
    /\ tasks = << >>
    /\ response = "NONE"
    /\ managerVerdict = "NONE"
    /\ reported = "NONE"
    /\ httpStatus = 0
    /\ requests = [r \in Requests |-> NoRequest]
    /\ uploads = {}
    /\ \E a \in Apps, c \in BOOLEAN :
         single = [NoCall EXCEPT !.app = a, !.client = c]
    /\ envelopes = << >>

\* The variables the single-agent applications never touch.
nonSingleVars == <<clientOk, sessionStatus, phase, round, extracted, verdicts,
                   gaps, tasks, response, managerVerdict, reported,
                   httpStatus, requests, uploads, envelopes>>

\* The points where the event loop can run another handler: before the
\* call starts, while it is suspended in `await file.read()`, and after it.
Suspended == single.pc \in {"idle", "read", "done"}

\* POST /update_prompt: `global SYSTEM_PROMPT; SYSTEM_PROMPT = new_prompt`.
update_prompt ==
    /\ Suspended
    /\ single.updates < MaxUpdates
    /\ single' = [single EXCEPT !.prompt = @ + 1, !.updates = @ + 1]
    /\ UNCHANGED nonSingleVars

\* A client posts the form to /check_scam_report: the call starts under
\* the SYSTEM_PROMPT of that moment.
PostCheck ==
    /\ single.pc = "idle"
    /\ \E t \in BOOLEAN, f \in {"none", "image", "audio", "other"},
          b \in BOOLEAN :
         single' = [single EXCEPT !.pc = "received", !.text = t, !.file = f,
                                  !.big = (b /\ f # "none"),
                                  !.created = single.prompt]
    /\ UNCHANGED nonSingleVars

\* check_key_and_client (HTTP 500 without a client), then HTTP 400 when
\* neither text nor file is given.
ValidateInput ==
    /\ single.pc = "received"
    /\ single' =
         IF ~single.client
         THEN [single EXCEPT !.pc = "done", !.raised = 500, !.status = 500,
                             !.detail = "CLIENT"]
         ELSE IF ~single.text /\ single.file = "none"
         THEN [single EXCEPT !.pc = "done", !.raised = 400, !.status = 400,
                             !.detail = "EMPTY"]
         ELSE IF single.file # "none"
         THEN [single EXCEPT !.pc = "read"]
         ELSE [single EXCEPT !.pc = "generate"]
    /\ UNCHANGED nonSingleVars

\* `await file.read()` has returned.  single_agent.py raises 413 outside
\* the try block, uploads an image or audio file with client.files.upload,
\* and turns every exception of the try block (the 400 for another type
\* included) into 500.  single_as_multi.py checks the size inside the try
\* block, so its 413 becomes 500 too, and passes the bytes inline.
ProcessFile ==
    /\ single.pc = "read"
    /\ IF single.app = "single_agent"
       THEN IF single.big
            THEN single' = [single EXCEPT !.pc = "done", !.raised = 413,
                                          !.status = 413,
                                          !.detail = "TOO_LARGE"]
            ELSE IF single.file = "other"
            THEN single' = [single EXCEPT !.pc = "done", !.raised = 400,
                                          !.status = 500, !.detail = "FILE"]
            ELSE \/ single' = [single EXCEPT !.pc = "generate",
                                             !.uploaded = TRUE,
                                             !.remote = TRUE]
                 \/ single' = [single EXCEPT !.pc = "done", !.status = 500,
                                             !.detail = "FILE"]
       ELSE IF single.big \/ single.file = "other"
            THEN single' = [single EXCEPT !.pc = "done",
                                          !.raised = IF single.big THEN 413
                                                     ELSE 400,
                                          !.status = 500, !.detail = "FILE"]
            ELSE single' = [single EXCEPT !.pc = "generate"]
    /\ UNCHANGED nonSingleVars

\* What the model's answer can look like.  "ok" is the envelope of the
\* system prompt: tasks[0] with sender "single_agent", receiver "boss" and
\* message.verdict, message.report.
Replies == {"ok", "no_sender", "bad_role", "no_verdict", "no_report",
            "empty_tasks", "not_json", "no_text"}

\* The config reads SYSTEM_PROMPT, then generate_content returns an answer,
\* raises APIError (the handler deletes the uploaded file, HTTP 500) or
\* raises something else (HTTP 500, the last except clause).
GenerateContent ==
    /\ single.pc = "generate"
    /\ \/ \E rep \in Replies :
            single' = [single EXCEPT !.pc = "parse", !.used = single.prompt,
                                     !.reply = rep]
       \/ single' = [single EXCEPT !.pc = "done", !.used = single.prompt,
                                   !.remote = FALSE, !.status = 500,
                                   !.detail = "API"]
       \/ single' = [single EXCEPT !.pc = "done", !.used = single.prompt,
                                   !.status = 500, !.detail = "SERVER"]
    /\ UNCHANGED nonSingleVars

\* How the answer is read.  single_agent.py: response.text.strip() is the
\* report.  single_as_multi.py: the text between the first "{" and the last
\* "}" is parsed and tasks[0].message.report taken; JSONDecodeError and
\* KeyError raise the format error, any other exception goes to the last
\* except clause.  No other field of the answer is looked at.
ParseOutcome(a, rep) ==
    IF rep = "no_text" THEN "SERVER"
    ELSE IF a = "single_agent" THEN "REPORT"
    ELSE CASE rep \in {"no_report", "not_json"} -> "FORMAT"
           [] rep = "empty_tasks" -> "SERVER"
           [] OTHER -> "REPORT"

\* The last except clause catches the format error's HTTPException as well
\* and raises its own.
Rewrap(d) == IF d = "FORMAT" THEN "SERVER" ELSE d

\* The answer is parsed; on success the uploaded file is deleted and the
\* report returned, otherwise HTTP 500 is raised.
ParseReply ==
    /\ single.pc = "parse"
    /\ LET out == ParseOutcome(single.app, single.reply) IN
         single' = IF out = "REPORT"
                   THEN [single EXCEPT !.pc = "done", !.remote = FALSE,
                                       !.status = 200, !.detail = "REPORT"]
                   ELSE [single EXCEPT !.pc = "done",
                                       !.raised = IF out = "FORMAT" THEN 500
                                                  ELSE 0,
                                       !.status = 500,
                                       !.detail = Rewrap(out)]
    /\ UNCHANGED nonSingleVars

NextSingle ==
    \/ update_prompt
    \/ PostCheck
    \/ ValidateInput
    \/ ProcessFile
    \/ GenerateContent
    \/ ParseReply

SpecSingle == InitSingle /\ [][NextSingle]_vars

----------------------------------------------------------------------------
\* Properties

TerminalTask(t) == t.status \in {"APPROVED", "APPROVE_WITH_CAVEAT"}

AllApproved == \A k \in DOMAIN tasks : tasks[k].status = "APPROVED"

SessionOver == sessionStatus \in {"FINALIZED", "ABORTED"}

\* The aggregation rule: all TRUE gives TRUE, any FALSE gives FALSE, TRUE
\* mixed with UNDETERMINED and no FALSE gives MIXED, anything else (no
\* proposition at all included) gives UNDETERMINED.
finalVerdict(pv) ==
    LET vs == {pv[p] : p \in DOMAIN pv} IN
    IF vs = {} THEN "UNDETERMINED"
    ELSE IF vs = {"TRUE"} THEN "TRUE"
    ELSE IF "FALSE" \in vs THEN "FALSE"
    ELSE IF vs = {"TRUE", "UNDETERMINED"} THEN "MIXED"
    ELSE "UNDETERMINED"

\* Two worker slots of the current round are given the same proposition.
SharedAnchor ==
    \E j, k \in DOMAIN tasks : j # k /\ tasks[j].anchor = tasks[k].anchor

AllowedMoves ==
    {<<"ASSIGNED", "SUBMITTED">>, <<"SUBMITTED", "APPROVED">>,
     <<"SUBMITTED", "REVISION_REQUESTED">>, <<"REVISION_REQUESTED", "SUBMITTED">>}

C2_JoinCompleteness ==
    phase = "FINALIZING" => \A k \in DOMAIN tasks : TerminalTask(tasks[k])

\* C3: within a round a task's status moves only ASSIGNED -> SUBMITTED ->
\* (APPROVED | REVISION_REQUESTED) and REVISION_REQUESTED -> SUBMITTED; a new
\* task starts ASSIGNED; an APPROVED task keeps its status.
C3_TaskStatusForward ==
    [][/\ (tasks # << >> /\ tasks' # << >> /\ round' = round) =>
            \A k \in DOMAIN tasks :
                \/ tasks'[k].status = tasks[k].status
                \/ <<tasks[k].status, tasks'[k].status>> \in AllowedMoves
       /\ (tasks' # << >> /\ round' # round) =>
            \A k \in DOMAIN tasks' : tasks'[k].status = "ASSIGNED"]_vars

\* C3 witness: a task approved on its resubmission after a revision request.
C3_Witness ==
    /\ tasks # << >>
    /\ \E k \in DOMAIN tasks : tasks[k].status = "APPROVED" /\ tasks[k].revisions >= 1

\* C4: no task enters REVISION_REQUESTED more often than the revision cap.
C4_RevisionCap ==
    \A k \in DOMAIN tasks : tasks[k].revisions <= revisionCap

\* C5: a session is FINALIZED only when every task of its last round is
\* APPROVED or the round cap is exhausted.
C5_FinalizedOnlyWhenDone ==
    sessionStatus = "FINALIZED" => (AllApproved \/ round >= roundCap)

\* C6: the coordinator finalizes only when coverage is fully resolved or
\* the round cap is reached; with gaps left and rounds left it continues.
C6_ContinueWhenGaps ==
    phase = "FINALIZING" => (gaps = {} \/ round >= roundCap)

\* C7: the verdict reported to the caller is the one the aggregation rule
\* yields for the session's per-proposition verdicts.
C7_ReportedVerdict ==
    sessionStatus = "FINALIZED" => reported = finalVerdict(verdicts)

C9_ExactlyNTasks ==
    phase = "DISPATCHED" =>
        /\ DOMAIN tasks = 1..worker_count
        /\ Len(tasks) = 5

\* C9 witness: a second round, planned in format B, is dispatched.
C9_Witness ==
    /\ phase = "DISPATCHED"
    /\ round = 2
    /\ response = "B"
    /\ \E k \in DOMAIN tasks : tasks[k].status = "SUBMITTED"

Arrived(r) == requests[r].pc # "idle"

Delivered(r) ==
    \/ requests[r].status = 200 /\ requests[r].report # "NONE"
    \/ requests[r].status \in {400, 500, 503} /\ requests[r].report = "NONE"

\* C16: under fairness every request that arrived at the facade ends, the
\* caller then holds either a report or an HTTP error, nothing is delivered
\* before the end, and nothing changes for that request afterwards.
C16_OneOutcome ==
    /\ \A r \in Requests : Arrived(r) ~> (requests[r].pc = "done")
    /\ [](\A r \in Requests :
            IF requests[r].pc = "done" THEN Delivered(r)
            ELSE requests[r].status = 0)
    /\ [][\A r \in Requests :
            requests[r].pc = "done" => requests'[r] = requests[r]]_vars

C16_Witness ==
    \E r \in Requests :
        /\ requests[r].pc = "done"
        /\ requests[r].calls = 1
        /\ requests[r].status = 503

\* C19: when a request of the facade has ended, on whatever path, the file
\* it saved in temp_uploads is gone; and a file disappears from
\* temp_uploads only in the finally block of the request that saved it.
C19_TempFileRemoved ==
    /\ [](\A r \in Requests : requests[r].pc = "done" => r \notin uploads)
    /\ [][\A f \in uploads \ uploads' :
            /\ requests[f].pc = "cleanup"
            /\ requests'[f].pc = "done"]_vars

C19_Witness ==
    \E r, q \in Requests :
        /\ r # q
        /\ requests[r].pc = "done"
        /\ requests[r].path = r
        /\ requests[r].status = 503
        /\ q \in uploads

\* C15: single_as_multi.py returns a report only for an answer that is the
\* full envelope of its schema (sender, receiver, a role of the fixed set,
\* verdict, report); every other answer is refused.
C15_MalformedRejected ==
    (single.app = "single_as_multi" /\ single.status = 200) =>
        single.reply = "ok"

\* C17: the system prompt a check_scam_report call runs under is the one
\* that was in force when the call started, whatever /update_prompt
\* requests arrive meanwhile.
C17_PromptOfCreation ==
    single.used # -1 => single.used = single.created

\* C20: when check_scam_report of single_agent.py has returned or raised,
\* no file it uploaded with client.files.upload is left at the service.
C20_UploadDeleted ==
    (single.app = "single_agent" /\ single.pc = "done") => ~single.remote

\* The sender/receiver pairs the routing discipline allows for the message
\* of slot k's task in status st.
Routed(k, st, e) ==
    \/ st = "ASSIGNED" /\ e.sender = manager_1 /\ e.receiver = Worker(k)
    \/ st = "SUBMITTED" /\ e.sender = Worker(k) /\ e.receiver = supervisor_1
    \/ st = "REVISION_REQUESTED" /\ e.sender = supervisor_1
                                 /\ e.receiver = Worker(k)
    \/ st = "APPROVED" /\ e.sender = supervisor_1 /\ e.receiver = manager_1

C21_StatusKept ==
    (single.pc = "done" /\ single.raised # 0) =>
        single.status = single.raised

\* C22: the facade answers 200 with status "success" only when the agent
\* service supplied a report; valid JSON without a 'report' field is
\* answered with HTTP 500.
C22_ReportSupplied ==
    \A r \in Requests :
        /\ requests[r].status = 200 => requests[r].report = "REPORT"
        /\ requests[r].report = "NOTICE" => requests[r].exit = 500

====
